---- MODULE Spec2Model ----
(***************************************************************************)
(* Model of the match engine's forward HeadingUpPlay state                 *)
(* (strategies/forwarders/states/heading_up_play/mod.rs) and of the        *)
(* steering behaviours (behaviours/steering.rs).                           *)
(*                                                                         *)
(* Arithmetic.  The source computes in f32.  The steering model computes   *)
(* in exact rationals <<n, d>> (d > 0, lowest terms); <<0, 0>> is NaN, the *)
(* value 0.0 / 0.0 yields; its inputs are drawn from sets on which every   *)
(* square root taken is rational.  Positions of the forward model are      *)
(* integer vectors.  A comparison of a distance with a threshold t >= 0 is *)
(* made on the squares (d < t  <=>  d*d < t*t): the f32 square root of an  *)
(* integer n < 2^24 is below, at or above the integer t exactly as n is    *)
(* below, at or above t*t.  The passing lane is computed in f32 itself,    *)
(* every operation rounded to nearest, ties to even, because its result at *)
(* the threshold 0.8 depends on the rounding.                              *)
(***************************************************************************)
EXTENDS Integers, Sequences, FiniteSets, TLC

VARIABLES
    mode,       \* "tick": a forward's tick evaluation; "steer": a steering call
    ctx,        \* StateProcessingContext: the tick snapshot seen by the handler
    state,      \* the acting player's active ForwardState
    pc,         \* position of the evaluation within the tick / the call
    fast,       \* Option<StateChangeResult> returned by try_fast
    slow,       \* Option<StateChangeResult> returned by process_slow
    applied,    \* what the tick committed: state, velocity, events
    tick,       \* number of ticks committed
    steer,      \* steering call: the player and the behaviour
    out,        \* SteeringOutput of the call
    out2        \* SteeringOutput of the same call made a second time

vars == <<mode, ctx, state, pc, fast, slow, applied, tick, steer, out, out2>>

(***************************************************************************)
(* Bounds of the model.                                                    *)
(***************************************************************************)
MaxX == 4          \* columns of the pitch grid: x = 15 + 5 * i, i in 0..MaxX
MaxTick == 2       \* ticks evaluated per forward
MaxVel == 1        \* speeds of a steered player along a direction: 0..MaxVel
MaxSpeed == 2      \* max_speed() of a steered player: 1..MaxSpeed
MaxSlow == 6       \* slowing_distance of Arrive: 0..MaxSlow

(***************************************************************************)
(* Exact rational arithmetic standing for f32.                             *)
(***************************************************************************)
Abs(n) == IF n < 0 THEN -n ELSE n

RECURSIVE GCD(_, _)
GCD(a, b) == IF b = 0 THEN a ELSE GCD(b, a % b)

NaN == <<0, 0>>

IsNaN(q) == q[2] = 0

\* n / d in lowest terms with a positive denominator; 0 / 0 is NaN.  A non-zero
\* numerator over zero (an infinity) does not arise on the inputs of the model.
Canon(n, d) ==
    IF d = 0 THEN NaN
    ELSE LET g == GCD(Abs(n), Abs(d))
             s == IF d < 0 THEN -1 ELSE 1
         IN  <<(s * n) \div g, (s * d) \div g>>

R(n) == <<n, 1>>

RAdd(a, b) == IF IsNaN(a) \/ IsNaN(b) THEN NaN ELSE Canon(a[1] * b[2] + b[1] * a[2], a[2] * b[2])

RSub(a, b) == IF IsNaN(a) \/ IsNaN(b) THEN NaN ELSE Canon(a[1] * b[2] - b[1] * a[2], a[2] * b[2])

RMul(a, b) == IF IsNaN(a) \/ IsNaN(b) THEN NaN ELSE Canon(a[1] * b[1], a[2] * b[2])

RDiv(a, b) == IF IsNaN(a) \/ IsNaN(b) THEN NaN ELSE Canon(a[1] * b[2], a[2] * b[1])

\* f32 comparisons: every comparison with NaN is false.
RLt(a, b) == ~IsNaN(a) /\ ~IsNaN(b) /\ a[1] * b[2] < b[1] * a[2]

RLe(a, b) == ~IsNaN(a) /\ ~IsNaN(b) /\ a[1] * b[2] <= b[1] * a[2]

IsSquare(n) == \E k \in 0..n : k * k = n

ISqrt(n) == CHOOSE k \in 0..n : k * k = n

\* The square root of a rational whose numerator and denominator are squares.
RSqrt(q) == IF IsNaN(q) THEN NaN ELSE <<ISqrt(q[1]), ISqrt(q[2])>>

RIsSquare(q) == ~IsNaN(q) /\ q[1] >= 0 /\ IsSquare(q[1]) /\ IsSquare(q[2])

(***************************************************************************)
(* Vector3<f32> over the rationals.                                        *)
(***************************************************************************)
V3(x, y, z) == <<R(x), R(y), R(z)>>

ToV3(p) == <<R(p[1]), R(p[2]), R(p[3])>>

ZeroV == V3(0, 0, 0)

VAdd(a, b) == <<RAdd(a[1], b[1]), RAdd(a[2], b[2]), RAdd(a[3], b[3])>>

VSub(a, b) == <<RSub(a[1], b[1]), RSub(a[2], b[2]), RSub(a[3], b[3])>>

VScale(a, q) == <<RMul(a[1], q), RMul(a[2], q), RMul(a[3], q)>>

VDot(a, b) == RAdd(RAdd(RMul(a[1], b[1]), RMul(a[2], b[2])), RMul(a[3], b[3]))

VIsNaN(a) == IsNaN(a[1]) \/ IsNaN(a[2]) \/ IsNaN(a[3])

\* VectorExtensions::length: the Euclidean norm.
length(a) == RSqrt(VDot(a, a))

\* nalgebra's Vector3::normalize: every component divided by the norm, so the
\* zero vector normalizes to (NaN, NaN, NaN).
normalize(a) ==
    LET n == length(a)
    IN  <<RDiv(a[1], n), RDiv(a[2], n), RDiv(a[3], n)>>

\* nalgebra's add_scalar: the scalar added to every component.
add_scalar(a, q) == <<RAdd(a[1], q), RAdd(a[2], q), RAdd(a[3], q)>>

\* The inputs on which length and normalize are exact.
ExactNorm(a) == RIsSquare(VDot(a, a))

(***************************************************************************)
(* f32 arithmetic (IEEE 754 binary32, round to nearest, ties to even).  A   *)
(* finite non-zero value is <<s, m, e>>, standing for s * m * 2^e with s in *)
(* {1, -1} and 2^23 <= m < 2^24; zero is <<1, 0, 0>> (the sign of a zero is *)
(* not kept: no comparison depends on it) and NaN is <<0, 0, 0>>.  The      *)
(* values of the model stay far from overflow and from the subnormals.      *)
(* Every intermediate integer stays below 2^31.                             *)
(***************************************************************************)
Two12 == 4096

Two22 == 4194304

Two23 == 8388608

Two24 == 16777216

Two25 == 33554432

F32NaN == <<0, 0, 0>>

F32Zero == <<1, 0, 0>>

F32IsNaN(x) == x[1] = 0

RECURSIVE F32Pow2(_)
F32Pow2(k) ==
    IF k = 0 THEN 1
    ELSE IF k >= 6 THEN 64 * F32Pow2(k - 6)
    ELSE 2 * F32Pow2(k - 1)

\* s * m * 2^e for 0 < m < 2^24, written with a mantissa of 24 bits.
RECURSIVE F32Normal(_, _, _)
F32Normal(s, m, e) ==
    IF m >= Two23 THEN <<s, m, e>>
    ELSE IF m < Two12 THEN F32Normal(s, Two12 * m, e - 12)
    ELSE IF m < Two22 \div 8 THEN F32Normal(s, 16 * m, e - 4)
    ELSE F32Normal(s, 2 * m, e - 1)

\* An integer of magnitude below 2^24 as f32: exact.
F32FromInt(n) == IF n = 0 THEN F32Zero ELSE F32Normal(IF n < 0 THEN -1 ELSE 1, Abs(n), 0)

\* The f32 of mantissa r, 2^23 <= r <= 2^24, and exponent e + 1: a mantissa
\* rounded up to 2^24 carries into the exponent.
F32Carry(s, r, e) == IF r = Two24 THEN <<s, Two23, e + 2>> ELSE <<s, r, e + 1>>

\* The f32 nearest to s * (q + f) * 2^e, where 2^24 <= q < 2^25 and 0 <= f < 1
\* with f > 0 exactly when sticky: the last bit of q is the rounding bit, and
\* a tie goes to the even mantissa.
F32Round(s, q, e, sticky) ==
    IF q % 2 = 1 /\ (sticky \/ (q \div 2) % 2 = 1)
    THEN F32Carry(s, q \div 2 + 1, e)
    ELSE <<s, q \div 2, e + 1>>

\* The f32 nearest to s * q * 2^e for q > 0: q is brought to 25 bits, the bits
\* shifted out kept as sticky.
RECURSIVE F32Narrow(_, _, _, _)
F32Narrow(s, q, e, sticky) ==
    IF q >= Two25 THEN F32Narrow(s, q \div 2, e + 1, sticky \/ q % 2 = 1)
    ELSE IF q < Two24 THEN F32Normal(s, q, e)
    ELSE F32Round(s, q, e, sticky)

\* The mantissa m with three guard bits, shifted right by the bits of p (a
\* power of two); the last guard bit is set when a non-zero bit was shifted out.
F32Shift(m, p) ==
    IF (8 * m) % p # 0 /\ ((8 * m) \div p) % 2 = 0
    THEN (8 * m) \div p + 1
    ELSE (8 * m) \div p

\* s * sum * 2^e rounded, for the sum of two aligned mantissas.
F32Sum(s, sum, e) == IF sum = 0 THEN F32Zero ELSE F32Narrow(s, sum, e, FALSE)

\* big + small, where the magnitude of big is at least that of small.
F32AddOrdered(big, small) ==
    IF big[3] - small[3] >= 26 THEN big
    ELSE F32Sum(big[1],
                8 * big[2] + (IF big[1] = small[1] THEN 1 ELSE -1)
                                * F32Shift(small[2], F32Pow2(big[3] - small[3])),
                big[3] - 3)

\* x + y.  The operand of smaller magnitude is aligned to the other with three
\* guard bits.
F32Add(x, y) ==
    IF F32IsNaN(x) \/ F32IsNaN(y) THEN F32NaN
    ELSE IF x[2] = 0 THEN y
    ELSE IF y[2] = 0 THEN x
    ELSE IF x[3] > y[3] \/ (x[3] = y[3] /\ x[2] >= y[2]) THEN F32AddOrdered(x, y)
    ELSE F32AddOrdered(y, x)

\* high * 2^24 + low as <<H, L>> with L < 2^24.
F32Wide(high, low) == <<high + low \div Two24, low % Two24>>

\* hh * 2^24 + mid * 2^12 + ll as <<H, L>>.
F32Limbs(hh, mid, ll) == F32Wide(hh + mid \div Two12, ll + (mid % Two12) * Two12)

\* a * b for a, b < 2^25, formed from 12-bit halves, as <<H, L>> standing for
\* H * 2^24 + L.
F32Product(a, b) ==
    F32Limbs((a \div Two12) * (b \div Two12),
             (a \div Two12) * (b % Two12) + (a % Two12) * (b \div Two12),
             (a % Two12) * (b % Two12))

\* s * (P[1] * 2^24 + P[2]) * 2^e rounded, for the product P of two mantissas.
F32MulRound(s, P, e) ==
    IF P[1] >= Two23
    THEN F32Round(s, 2 * P[1] + P[2] \div Two23, e + 23, P[2] % Two23 # 0)
    ELSE F32Round(s, 4 * P[1] + P[2] \div Two22, e + 22, P[2] % Two22 # 0)

\* x * y: the 48-bit product of the mantissas rounded to 24 bits.
F32Mul(x, y) ==
    IF F32IsNaN(x) \/ F32IsNaN(y) THEN F32NaN
    ELSE IF x[2] = 0 \/ y[2] = 0 THEN F32Zero
    ELSE F32MulRound(x[1] * y[1], F32Product(x[2], y[2]), x[3] + y[3])

\* k more digits, in the given radix, of the quotient of r by d (r < d):
\* <<quotient, remainder>>.
RECURSIVE F32DivBits(_, _, _, _, _)
F32DivBits(q, r, d, radix, k) ==
    IF k = 0 THEN <<q, r>>
    ELSE F32DivBits(radix * q + (radix * r) \div d, (radix * r) % d, d, radix, k - 1)

\* s * (qr[1] + f) * 2^e rounded, for a 25-bit quotient qr[1] and its
\* remainder qr[2].
F32Quotient(s, qr, e) == F32Round(s, qr[1], e, qr[2] # 0)

\* x / y by long division to 25 bits and a remainder.  0.0 / 0.0 is NaN; a
\* non-zero value over zero (an infinity) does not arise: normalize divides
\* by a zero norm only the components of the zero vector.
F32Div(x, y) ==
    IF F32IsNaN(x) \/ F32IsNaN(y) \/ y[2] = 0 THEN F32NaN
    ELSE IF x[2] = 0 THEN F32Zero
    ELSE IF x[2] >= y[2]
    THEN F32Quotient(x[1] * y[1], F32DivBits(1, x[2] - y[2], y[2], 64, 4), x[3] - y[3] - 24)
    ELSE F32Quotient(x[1] * y[1], F32DivBits(0, x[2], y[2], 32, 5), x[3] - y[3] - 25)

\* The integer square root of n by Newton's iteration from x above it.
RECURSIVE F32ISqrt(_, _)
F32ISqrt(n, x) ==
    IF (x + n \div x) \div 2 >= x THEN x ELSE F32ISqrt(n, (x + n \div x) \div 2)

\* q * q for q < 2^25, as <<H, L>> standing for H * 2^24 + L.
F32Square(q) == F32Product(q, q)

\* sqrt(n * 2^(2e)) rounded, q being the integer square root of n * 2^24.
F32SqrtRound(n, q, e) == F32Round(1, q, e - 12, F32Square(q) # <<n, 0>>)

\* The integer square root of n * 2^24 from the estimate q1, which is the root
\* or one above it: the exact square decides.
F32SqrtPick(n, q1, e) ==
    IF F32Square(q1)[1] < n \/ F32Square(q1) = <<n, 0>>
    THEN F32SqrtRound(n, q1, e)
    ELSE F32SqrtRound(n, q1 - 1, e)

\* The estimate of the root of n * 2^24 from the integer root r of n.
F32SqrtEstimate(n, r, e) ==
    F32SqrtPick(n, Two12 * r + (Two12 * (n - r * r)) \div (2 * r), e)

\* sqrt(n * 2^(2e)) for 2^24 <= n < 2^26.
F32SqrtOf(n, e) == F32SqrtEstimate(n, F32ISqrt(n, 8192), e)

\* sqrt(x): x is written n * 2^(2e) with 2^24 <= n < 2^26.
F32Sqrt(x) ==
    IF F32IsNaN(x) \/ x[1] = -1 THEN F32NaN
    ELSE IF x[2] = 0 THEN F32Zero
    ELSE IF x[3] % 2 = 0 THEN F32SqrtOf(4 * x[2], (x[3] - 2) \div 2)
    ELSE F32SqrtOf(2 * x[2], (x[3] - 1) \div 2)

\* x > y: false when either is NaN.
F32Gt(x, y) ==
    /\ ~F32IsNaN(x) /\ ~F32IsNaN(y)
    /\ IF x[2] = 0 THEN y[2] # 0 /\ y[1] = -1
       ELSE IF y[2] = 0 THEN x[1] = 1
       ELSE IF x[1] # y[1] THEN x[1] = 1
       ELSE IF x[1] = 1 THEN x[3] > y[3] \/ (x[3] = y[3] /\ x[2] > y[2])
       ELSE y[3] > x[3] \/ (y[3] = x[3] /\ y[2] > x[2])

\* Integer vectors: the dot product and the difference, both exact.
IDot(a, b) == a[1] * b[1] + a[2] * b[2] + a[3] * b[3]

ISub(a, b) == <<a[1] - b[1], a[2] - b[2], a[3] - b[3]>>

\* nalgebra's dot of two Vector3: the three products summed in order.
F32Dot(a, b) == F32Add(F32Add(F32Mul(a[1], b[1]), F32Mul(a[2], b[2])), F32Mul(a[3], b[3]))

\* nalgebra's norm of an integer vector p: the square root of the squared norm.
\* The squares of integers below 2^11 and their sum are exact in f32, so the
\* squared norm is taken in integers.
F32Norm(p) == F32Sqrt(F32FromInt(IDot(p, p)))

\* The integer vector p divided by the f32 n, component by component.
F32Unscale(p, n) ==
    <<F32Div(F32FromInt(p[1]), n), F32Div(F32FromInt(p[2]), n), F32Div(F32FromInt(p[3]), n)>>

\* nalgebra's normalize of an integer vector p as Vector3<f32>: every component
\* divided by the norm.
F32Normalize(p) == F32Unscale(p, F32Norm(p))

(***************************************************************************)
(* The tick snapshot of the forward model.                                 *)
(***************************************************************************)
NoId == 0

Ids == 1..4

\* PlayerSide, and the absent side (Option<PlayerSide>::None).
Sides == {"Left", "Right", "None"}

ForwardStates == {"HeadingUpPlay", "Running", "Passing", "Dribbling"}

\* Option<..>::None of a state or of a whole StateChangeResult.
NoState == "None"

None == [is_some |-> FALSE]

distance_sq(a, b) ==
    (a[1] - b[1]) * (a[1] - b[1]) + (a[2] - b[2]) * (a[2] - b[2])
        + (a[3] - b[3]) * (a[3] - b[3])

\* ctx.context.players.get_by_team(team_id): the players of the team, in the
\* order the collection lists them.  The acting player is one of them.
get_by_team(c, team_id) == SelectSeq(c.players, LAMBDA p : p.team_id = team_id)

\* ctx.team().opponents(): the players of the other team.
opponents(c) == SelectSeq(c.players, LAMBDA p : p.team_id # c.player.team_id)

\* ctx.context.players.get(id): TRUE when the lookup finds the player.
players_get(c, id) == id \in c.index

pressure_distance == 10

\* ctx.player().is_under_pressure(): an opponent within the pressure distance.
is_under_pressure(c) ==
    \E i \in 1..Len(opponents(c)) :
        distance_sq(c.player.position, opponents(c)[i].position)
            <= pressure_distance * pressure_distance

\* ctx.ball().direction_to_opponent_goal(): the goal the acting player attacks.
direction_to_opponent_goal(c) ==
    CASE c.player.side = "Left" -> c.goal_positions.right
      [] c.player.side = "Right" -> c.goal_positions.left
      [] OTHER -> <<0, 0, 0>>

(***************************************************************************)
(* StateChangeResult and its constructors.                                 *)
(***************************************************************************)
\* StateChangeResult::new(): no state, no velocity, no events.
StateChangeResult_new == [state |-> NoState, velocity |-> <<>>, events |-> <<>>]

\* StateChangeResult::with_forward_state(s): a new result carrying only s.
with_forward_state(s) == [state |-> s, velocity |-> <<>>, events |-> <<>>]

RequestPass(id) == [event |-> "RequestPass", player_id |-> id]

\* result.events.add_player_event(e)
add_player_event(r, e) == [r EXCEPT !.events = Append(@, e)]

Some(r) == [is_some |-> TRUE, state |-> r.state, velocity |-> r.velocity, events |-> r.events]

(***************************************************************************)
(* The positions of the forward model.                                     *)
(***************************************************************************)
Col(i) == 15 + 5 * i

Rows == {15, 20, 25}

PitchGrid == {<<Col(i), y, 0>> : i \in 0..MaxX, y \in Rows}

CentreLine == {<<Col(i), 20, 0>> : i \in 0..MaxX}

PlayerPosition == <<15, 20, 0>>

BallPositions == {PlayerPosition, <<20, 20, 0>>}

\* Balls at the offsets (3, 3), (7, 1), (4, 3) and (24, 7) from the acting player.
LaneBalls == {<<18, 23, 0>>, <<22, 21, 0>>, <<19, 23, 0>>, <<39, 27, 0>>}

\* Teammates at the offsets (7, 1), (3, 4), (12, 12), (5, 5) and (5, 0).  The
\* exact cosine is 4/5 for (3, 3) with (7, 1), for (24, 7) with (3, 4), for
\* (7, 1) with (12, 12) and with (5, 5), and for (4, 3) with (5, 0).
LanePoints == {<<22, 21, 0>>, <<18, 24, 0>>, <<27, 32, 0>>, <<20, 25, 0>>, <<20, 20, 0>>}

(***************************************************************************)
(* ForwardHeadingUpPlayState.                                              *)
(***************************************************************************)
min_support_distance == 10

has_support(c) ==
    LET teammates == get_by_team(c, c.player.team_id)
    IN  \E i \in 1..Len(teammates) :
            distance_sq(c.player.position, teammates[i].position)
                < min_support_distance * min_support_distance

max_distance == 20

opponent_clearance == 5

is_open_for_pass(c, teammate) ==
    IF distance_sq(c.player.position, teammate.position) > max_distance * max_distance
    THEN FALSE
    ELSE \A i \in 1..Len(opponents(c)) :
            distance_sq(opponents(c)[i].position, teammate.position)
                > opponent_clearance * opponent_clearance

\* The literal 0.8 as f32: 13421773 * 2^-24 = 0.800000011920929, the f32
\* nearest to 4/5.
lane_threshold == <<1, 13421773, -24>>

\* normalize(ball - player) . normalize(teammate - player) > 0.8, every step in
\* f32; the difference of two integer positions is exact.  With a zero vector
\* the normalized vector is NaN and the comparison is false.  Where the exact
\* cosine is 4/5 the rounded dot product is 0.8f32 for some directions and an
\* f32 above it for others.
in_passing_lane(c, teammate) ==
    LET ball_position == c.ball_position
        player_to_ball == F32Normalize(ISub(ball_position, c.player.position))
        player_to_teammate == F32Normalize(ISub(teammate.position, c.player.position))
    IN  F32Gt(F32Dot(player_to_ball, player_to_teammate), lane_threshold)

\* 1.0 - distance_to_goal / width, kept as the pair (distance squared, width).
scoring_chance(c, teammate) ==
    LET goal_position ==
            CASE teammate.side = "Left" -> c.goal_positions.right
              [] teammate.side = "Right" -> c.goal_positions.left
              [] OTHER -> <<0, 0, 0>>
    IN  [dist_sq |-> distance_sq(teammate.position, goal_position),
         width |-> c.field_size.width]

\* score_a.partial_cmp(&score_b).unwrap_or(Equal) for two chances over the same
\* positive width: the smaller distance is the greater chance.
partial_cmp(score_a, score_b) ==
    IF score_a.dist_sq < score_b.dist_sq THEN "Greater"
    ELSE IF score_a.dist_sq > score_b.dist_sq THEN "Less"
    ELSE "Equal"

\* Mutant of max_by_fold: the accumulator is kept on a tie as well.
RECURSIVE max_by_fold_first(_, _, _, _)
max_by_fold_first(c, s, i, acc) ==
    IF i > Len(s) THEN acc
    ELSE max_by_fold_first(c, s, i + 1,
            IF partial_cmp(scoring_chance(c, acc), scoring_chance(c, s[i])) = "Less"
            THEN s[i] ELSE acc)

\* Iterator::max_by: a fold that keeps the accumulator only when it compares
\* Greater than the next element.
RECURSIVE max_by_fold(_, _, _, _)
max_by_fold(c, s, i, acc) ==
    IF i > Len(s) THEN acc
    ELSE max_by_fold(c, s, i + 1,
            IF partial_cmp(scoring_chance(c, acc), scoring_chance(c, s[i])) = "Greater"
            THEN acc ELSE s[i])

\* Mutant of find_best_pass_option: the first candidate is taken, unranked.
find_best_pass_option_unranked(c) ==
    LET teammates == get_by_team(c, c.player.team_id)
        candidates == SelectSeq(teammates,
            LAMBDA t : is_open_for_pass(c, t) /\ in_passing_lane(c, t))
    IN  IF Len(candidates) = 0 THEN NoId ELSE candidates[1].id

find_best_pass_option(c) ==
    LET teammates == get_by_team(c, c.player.team_id)
        candidates == SelectSeq(teammates,
            LAMBDA t : is_open_for_pass(c, t) /\ in_passing_lane(c, t))
    IN  IF Len(candidates) = 0 THEN NoId
        ELSE max_by_fold(c, candidates, 2, candidates[1]).id

\* The last branch of try_fast: move towards the opponent's goal.
move_towards_goal(c) ==
    LET goal_position == direction_to_opponent_goal(c)
        direction == normalize(ToV3(ISub(goal_position, c.player.position)))
        half == <<1, 2>>
    IN  Some([StateChangeResult_new EXCEPT !.velocity =
            VScale(VScale(direction, R(c.player.acceleration)), half)])

\* Mutant of try_fast: the pass check made before the pressure check.
try_fast_pass_before_pressure(c) ==
    IF ~c.player.has_ball THEN Some(with_forward_state("Running"))
    ELSE IF has_support(c) /\ find_best_pass_option(c) # NoId
    THEN IF ~players_get(c, find_best_pass_option(c)) THEN None
         ELSE Some(with_forward_state("Running"))
    ELSE IF is_under_pressure(c) THEN Some(with_forward_state("Passing"))
    ELSE IF ~has_support(c) THEN Some(with_forward_state("Dribbling"))
    ELSE move_towards_goal(c)

\* Mutant of try_fast: a forward under pressure shoots.
try_fast_shoots(c) ==
    IF ~c.player.has_ball THEN Some(with_forward_state("Running"))
    ELSE IF is_under_pressure(c) THEN Some(with_forward_state("Shooting"))
    ELSE IF ~has_support(c) THEN Some(with_forward_state("Dribbling"))
    ELSE IF find_best_pass_option(c) # NoId
    THEN IF ~players_get(c, find_best_pass_option(c)) THEN None
         ELSE Some(with_forward_state("Running"))
    ELSE move_towards_goal(c)

\* Mutant of try_fast: the looked-up teammate is not checked to exist.
try_fast_unchecked_lookup(c) ==
    IF ~c.player.has_ball THEN Some(with_forward_state("Running"))
    ELSE IF is_under_pressure(c) THEN Some(with_forward_state("Passing"))
    ELSE IF ~has_support(c) THEN Some(with_forward_state("Dribbling"))
    ELSE IF find_best_pass_option(c) # NoId THEN Some(with_forward_state("Running"))
    ELSE move_towards_goal(c)

try_fast(c) ==
    IF ~c.player.has_ball THEN Some(with_forward_state("Running"))
    ELSE IF is_under_pressure(c) THEN Some(with_forward_state("Passing"))
    ELSE IF ~has_support(c) THEN Some(with_forward_state("Dribbling"))
    ELSE LET teammate_id == find_best_pass_option(c)
         IN  IF teammate_id # NoId
             THEN IF ~players_get(c, teammate_id) THEN None
                  ELSE LET result == add_player_event(StateChangeResult_new,
                                                      RequestPass(c.player.id))
                       IN  \* result is dropped: a new result is returned
                           Some(with_forward_state("Running"))
             ELSE move_towards_goal(c)

process_slow(c) == None

velocity(c) == ZeroV

(***************************************************************************)
(* The snapshots the tick model starts from.  The acting forward (id 1,     *)
(* team 1) stands at (15, 20, 0) on the centre line y = 20 of a pitch 50     *)
(* wide; two teammates (ids 2 and 3) stand on a grid of columns              *)
(* 15, 20, .. and rows 15, 20, 25; at most one opponent (id 4, team 2)       *)
(* stands on the centre line.  Distances 0, 5, 10, 15, 20 and more from the  *)
(* acting player all occur, so every distance threshold is met from both     *)
(* sides.  On the grid no cosine between ball and teammate is 4/5; the lane   *)
(* snapshots add balls and teammates whose exact cosine is 4/5, with a       *)
(* rounded dot product above 0.8f32 for some and not for others, next to     *)
(* teammates clearly inside and outside the lane.                            *)
(***************************************************************************)
\* The orders in which the collection may list the acting player's team.
TeamOrders == {<<1, 2, 3>>, <<3, 1, 2>>}

\* The ids the player index may hold: all of them, or all but a removed one.
Indexes == {Ids, Ids \ {3}}

MatchPlayer(id, team_id, position, side) ==
    [id |-> id, team_id |-> team_id, position |-> position, side |-> side]

Snapshot(p2, p3, opp, ball, has_ball, side, order, index) ==
    LET pos == [i \in 1..3 |-> IF i = 1 THEN PlayerPosition ELSE IF i = 2 THEN p2 ELSE p3]
        team == [k \in 1..3 |-> MatchPlayer(order[k], 1, pos[order[k]], side)]
        other == IF opp = <<>> THEN <<>>
                 ELSE <<MatchPlayer(4, 2, opp, IF side = "Left" THEN "Right"
                                               ELSE IF side = "Right" THEN "Left" ELSE "None")>>
    IN  [player |-> [id |-> 1, team_id |-> 1, position |-> PlayerPosition, side |-> side,
                     has_ball |-> has_ball, acceleration |-> 4],
         players |-> team \o other,
         index |-> index,
         ball_position |-> ball,
         goal_positions |-> [left |-> <<0, 20, 0>>, right |-> <<50, 20, 0>>],
         field_size |-> [width |-> 50]]

\* p <= q in the lexicographic order of positions.
PosLeq(p, q) == p[1] < q[1] \/ (p[1] = q[1] /\ p[2] <= q[2])

\* Every pair of teammate positions occurs, with either teammate listed first:
\* the pairs are taken up to exchange and TeamOrders lists ids 2 and 3 both ways.
TeammatePairs == {pq \in PitchGrid \X PitchGrid : PosLeq(pq[1], pq[2])}

GridSnapshots ==
    {Snapshot(pq[1], pq[2], opp, ball, has_ball, side, order, index) :
        pq \in TeammatePairs, opp \in CentreLine \cup {<<>>},
        ball \in BallPositions, has_ball \in BOOLEAN, side \in Sides,
        order \in TeamOrders, index \in Indexes}

LaneOpponents == {<<>>, <<20, 20, 0>>, <<30, 30, 0>>}

LaneSnapshots ==
    {Snapshot(p2, p3, opp, ball, has_ball, side, order, index) :
        p2 \in LanePoints, p3 \in LanePoints, opp \in LaneOpponents,
        ball \in LaneBalls, has_ball \in BOOLEAN, side \in {"Left", "Right"},
        order \in TeamOrders, index \in Indexes}

Snapshots == GridSnapshots \cup LaneSnapshots

NoSteer == [kind |-> "None"]

NoApplied == [state |-> NoState, velocity |-> <<>>, events |-> <<>>]

TickInit ==
    /\ mode = "tick"
    /\ ctx \in Snapshots
    /\ state = "HeadingUpPlay"
    /\ pc = "fast"
    /\ fast = None
    /\ slow = None
    /\ applied = NoApplied
    /\ tick = 0
    /\ steer = NoSteer
    /\ out = <<>>
    /\ out2 = <<>>

(***************************************************************************)
(* The tick of one player: the fast path, the slow path when the fast path   *)
(* yields nothing, and the commit of the result at the end of the tick.      *)
(***************************************************************************)
TryFast ==
    /\ mode = "tick" /\ pc = "fast" /\ state = "HeadingUpPlay"
    /\ fast' = try_fast(ctx)
    /\ pc' = IF fast'.is_some THEN "commit" ELSE "slow"
    /\ UNCHANGED <<mode, ctx, state, slow, applied, tick, steer, out, out2>>

ProcessSlow ==
    /\ mode = "tick" /\ pc = "slow"
    /\ slow' = process_slow(ctx)
    /\ pc' = "commit"
    /\ UNCHANGED <<mode, ctx, state, fast, applied, tick, steer, out, out2>>

\* The result of the tick: the fast result, else the slow one.
Pending == IF fast.is_some THEN fast ELSE slow

Commit ==
    /\ mode = "tick" /\ pc = "commit"
    /\ applied' = IF Pending.is_some
                  THEN [state |-> Pending.state, velocity |-> Pending.velocity,
                        events |-> Pending.events]
                  ELSE NoApplied
    /\ state' = IF Pending.is_some /\ Pending.state # NoState THEN Pending.state ELSE state
    /\ tick' = tick + 1
    /\ pc' = IF state' = "HeadingUpPlay" /\ tick' < MaxTick THEN "next" ELSE "done"
    /\ UNCHANGED <<mode, ctx, fast, slow, steer, out, out2>>

\* The following tick: the snapshot is taken again; the ball may have been lost.
NextTick ==
    /\ mode = "tick" /\ pc = "next"
    /\ \E b \in BOOLEAN : ctx' = [ctx EXCEPT !.player.has_ball = b]
    /\ pc' = "fast"
    /\ fast' = None
    /\ slow' = None
    /\ UNCHANGED <<mode, state, applied, tick, steer, out, out2>>

TickNext == TryFast \/ ProcessSlow \/ Commit \/ NextTick

Spec == TickInit /\ [][TickNext]_vars

(***************************************************************************)
(* SteeringBehavior::calculate.  A behaviour is a record tagged by kind; the *)
(* player is [position, velocity, max_speed], max_speed standing for         *)
(* player.skills.max_speed().                                                *)
(***************************************************************************)
SteeringOutput(v) == [velocity |-> v, rotation |-> R(0)]

calc_seek(b, player) ==
    LET desired_velocity == normalize(VSub(b.target, player.position))
        steering == VSub(desired_velocity, player.velocity)
    IN  SteeringOutput(steering)

\* Mutant of arrive_desired_speed: the speed scales with the distance everywhere.
arrive_desired_speed_unbounded(distance, slowing_distance, max_speed) ==
    RMul(RDiv(distance, slowing_distance), max_speed)

\* The desired speed of Arrive: distance / slowing_distance * max_speed inside
\* the slowing distance, max_speed outside.
arrive_desired_speed(distance, slowing_distance, max_speed) ==
    IF RLt(distance, slowing_distance)
    THEN RMul(RDiv(distance, slowing_distance), max_speed)
    ELSE max_speed

calc_arrive(b, player) ==
    LET distance == length(VSub(b.target, player.position))
        desired_speed == arrive_desired_speed(distance, b.slowing_distance, player.max_speed)
        desired_velocity == VScale(normalize(VSub(b.target, player.position)), desired_speed)
        steering == VSub(desired_velocity, player.velocity)
    IN  SteeringOutput(steering)

\* The point Pursuit and Evade predict for the target entity.
predicted_position(b, player) ==
    LET distance == length(VSub(b.target.position, player.position))
        prediction == RDiv(distance, player.max_speed)
    IN  VAdd(b.target.position, VScale(b.target.velocity, prediction))

calc_pursuit(b, player) ==
    LET target_position == predicted_position(b, player)
        desired_velocity ==
            VScale(normalize(VSub(target_position, player.position)), player.max_speed)
        steering == VSub(desired_velocity, player.velocity)
    IN  SteeringOutput(steering)

calc_evade(b, player) ==
    LET target_position == predicted_position(b, player)
        desired_velocity ==
            VScale(normalize(VSub(player.position, target_position)), player.max_speed)
        steering == VSub(desired_velocity, player.velocity)
    IN  SteeringOutput(steering)

\* Vector3::random_in_unit_circle(): the points a call may return.  The call
\* is given no seed and no generator, and calculate takes none: which point a
\* call returns is not fixed by the arguments of calculate.
random_in_unit_circle ==
    {<<R(1), R(0), R(0)>>, <<R(0), R(-1), R(0)>>,
     <<<<3, 5>>, <<4, 5>>, R(0)>>, <<<<3, 10>>, <<2, 5>>, R(0)>>}

\* player.heading(): the facing angle atan2(v.y, v.x) in radians, pi taken as
\* 22/7; defined on the velocities of the model, which lie on the eight
\* compass directions (the zero velocity faces angle 0).
heading(player) ==
    LET x == player.velocity[1][1]
        y == player.velocity[2][1]
        octant == CASE y = 0 /\ x >= 0 -> 0
                    [] x > 0 /\ y > 0 -> 1
                    [] x = 0 /\ y > 0 -> 2
                    [] x < 0 /\ y > 0 -> 3
                    [] y = 0 /\ x < 0 -> 4
                    [] x < 0 /\ y < 0 -> -3
                    [] x = 0 /\ y < 0 -> -2
                    [] OTHER -> -1
    IN  Canon(octant * 22, 4 * 7)

\* rand_vec + *target, for the point the call of random_in_unit_circle returned.
wander_target(b, point) == VAdd(VScale(point, b.jitter), b.target)

\* The output of Wander once the point is drawn.
wander_steering(b, player, point) ==
    LET target == wander_target(b, point)
        target_offset == VSub(target, player.position)
        scaled == VScale(normalize(target_offset), b.distance)
        moved == add_scalar(scaled, RMul(heading(player), b.radius))
        steering == VSub(moved, player.velocity)
    IN  SteeringOutput(steering)

\* The outputs Wander may return: one for every point the draw may give.
calc_wander(b, player) ==
    {wander_steering(b, player, point) : point \in random_in_unit_circle}

\* Mutant of calc_flee: the desired velocity points at the target.
calc_flee_towards(b, player) ==
    LET desired_velocity ==
            VScale(normalize(VSub(b.target, player.position)), player.max_speed)
        steering == VSub(desired_velocity, player.velocity)
    IN  SteeringOutput(steering)

calc_flee(b, player) ==
    LET desired_velocity ==
            VScale(normalize(VSub(player.position, b.target)), player.max_speed)
        steering == VSub(desired_velocity, player.velocity)
    IN  SteeringOutput(steering)

\* The outputs calculate may return: a single one for every behaviour but
\* Wander.
calculate(b, player) ==
    CASE b.kind = "Seek" -> {calc_seek(b, player)}
      [] b.kind = "Arrive" -> {calc_arrive(b, player)}
      [] b.kind = "Pursuit" -> {calc_pursuit(b, player)}
      [] b.kind = "Evade" -> {calc_evade(b, player)}
      [] b.kind = "Wander" -> calc_wander(b, player)
      [] b.kind = "Flee" -> {calc_flee(b, player)}

(***************************************************************************)
(* The steering calls the model starts from.  Positions are the corners of  *)
(* a 3 x 4 rectangle, whose sides and diagonals have integer lengths; the    *)
(* calls kept are those on which every norm taken is rational.               *)
(***************************************************************************)
SteerPoints == {V3(0, 0, 0), V3(3, 0, 0), V3(0, 4, 0), V3(3, 4, 0)}

Directions == {<<1, 0, 0>>, <<0, 1, 0>>, <<-1, 0, 0>>, <<0, -1, 0>>, <<1, 1, 0>>}

Velocities == {V3(d[1] * k, d[2] * k, 0) : d \in Directions, k \in 0..MaxVel}

SteerPlayers ==
    [position : SteerPoints, velocity : Velocities, max_speed : {R(k) : k \in 1..MaxSpeed}]

TargetPlayers == [position : SteerPoints, velocity : {V3(0, 0, 0), V3(1, 0, 0), V3(0, -1, 0)}]

Behaviors ==
    [kind : {"Seek", "Flee"}, target : SteerPoints]
    \cup [kind : {"Arrive"}, target : SteerPoints,
          slowing_distance : {R(k) : k \in 0..MaxSlow}]
    \cup [kind : {"Pursuit", "Evade"}, target : TargetPlayers]
    \cup [kind : {"Wander"}, target : SteerPoints, radius : {R(0), R(1)},
          jitter : {R(0), R(3)}, distance : {R(2)}, angle : {R(0)}]

\* Every norm the call takes is the square root of a rational square, for
\* every point Wander may draw.
Exact(b, player) ==
    CASE b.kind \in {"Seek", "Arrive", "Flee"} -> TRUE
      [] b.kind \in {"Pursuit", "Evade"} ->
            ExactNorm(VSub(predicted_position(b, player), player.position))
      [] b.kind = "Wander" ->
            \A point \in random_in_unit_circle :
                ExactNorm(VSub(wander_target(b, point), player.position))

SteerCalls ==
    {c \in [player : SteerPlayers, behavior : Behaviors] : Exact(c.behavior, c.player)}

SteerInit ==
    /\ mode = "steer"
    /\ steer \in SteerCalls
    /\ pc = "call"
    /\ out = <<>>
    /\ out2 = <<>>
    /\ ctx = <<>>
    /\ state = NoState
    /\ fast = None
    /\ slow = None
    /\ applied = NoApplied
    /\ tick = 0

Calculate ==
    /\ mode = "steer" /\ pc = "call"
    /\ out' \in calculate(steer.behavior, steer.player)
    /\ pc' = "calculated"
    /\ UNCHANGED <<mode, ctx, state, fast, slow, applied, tick, steer, out2>>

\* The same call made a second time on the same player and behaviour.
Recalculate ==
    /\ mode = "steer" /\ pc = "calculated"
    /\ out2' \in calculate(steer.behavior, steer.player)
    /\ pc' = "repeated"
    /\ UNCHANGED <<mode, ctx, state, fast, slow, applied, tick, steer, out>>

SteerNext == Calculate \/ Recalculate

SpecSteer == SteerInit /\ [][SteerNext]_vars

(***************************************************************************)
(* Vocabulary of the properties of the tick model.                         *)
(***************************************************************************)
\* The fast path of the current tick has been evaluated on ctx.
Evaluated == mode = "tick" /\ pc # "fast"

\* The fast path has just been evaluated: every snapshot passes here once.
JustEvaluated == mode = "tick" /\ pc \in {"slow", "commit"}

\* The tick has been committed.
Committed == mode = "tick" /\ pc \in {"next", "done"}

TeamList == get_by_team(ctx, ctx.player.team_id)

Opponents == {ctx.players[i] : i \in {k \in 1..Len(ctx.players) :
                                        ctx.players[k].team_id # ctx.player.team_id}}

\* Open: within pass range 20 of the acting player, no opponent within 5.
Open(t) ==
    /\ distance_sq(ctx.player.position, t.position) <= 400
    /\ \A o \in Opponents : distance_sq(o.position, t.position) > 25

\* The offsets of the ball and of teammate t from the acting player.
BallOffset == ISub(ctx.ball_position, ctx.player.position)

OffsetOf(t) == ISub(t.position, ctx.player.position)

\* The exact cosine of the angle between ball and teammate, seen from the
\* acting player, is above 4/5: stated on the squares.
CosAbove(t) ==
    /\ IDot(BallOffset, OffsetOf(t)) > 0
    /\ 25 * IDot(BallOffset, OffsetOf(t)) * IDot(BallOffset, OffsetOf(t))
          > 16 * IDot(BallOffset, BallOffset) * IDot(OffsetOf(t), OffsetOf(t))

\* The exact cosine is 4/5.
CosExact(t) ==
    /\ IDot(BallOffset, OffsetOf(t)) > 0
    /\ 25 * IDot(BallOffset, OffsetOf(t)) * IDot(BallOffset, OffsetOf(t))
          = 16 * IDot(BallOffset, BallOffset) * IDot(OffsetOf(t), OffsetOf(t))

\* At the exact cosine 4/5 the dot product of the two f32 unit vectors is
\* 0.8f32 (0.800000012) or the next f32 above it (0.800000072), by the
\* directions.  Of the pairs <<ball offset, teammate offset>> of the snapshots
\* at that cosine, these round above: (3, 3) with (7, 1), (7, 1) with
\* (12, 12) and (24, 7) with (3, 4); (7, 1) with (5, 5) and (4, 3) with (5, 0)
\* give 0.8f32 itself.
RoundsAbove ==
    {<<<<3, 3, 0>>, <<7, 1, 0>>>>, <<<<7, 1, 0>>, <<12, 12, 0>>>>,
     <<<<24, 7, 0>>, <<3, 4, 0>>>>}

\* Aligned: the f32 dot product is above 0.8f32.  That is the exact cosine
\* above 4/5, or at 4/5 with a dot product rounded above.
Aligned(t) ==
    CosAbove(t) \/ (CosExact(t) /\ <<BallOffset, OffsetOf(t)>> \in RoundsAbove)

\* Positions in the team list of the open, aligned teammates.
Candidates == {i \in 1..Len(TeamList) : Open(TeamList[i]) /\ Aligned(TeamList[i])}

GoalOf(t) ==
    IF t.side = "Left" THEN ctx.goal_positions.right
    ELSE IF t.side = "Right" THEN ctx.goal_positions.left
    ELSE <<0, 0, 0>>

\* 1 - d(t) / width > 1 - d(u) / width, for the positive width of the pitch.
HigherChance(t, u) ==
    distance_sq(t.position, GoalOf(t)) < distance_sq(u.position, GoalOf(u))

\* The members of C no other member of C beats.
BestOf(C) == {i \in C : \A j \in C : ~HigherChance(TeamList[j], TeamList[i])}

\* The candidates no other candidate beats.
Best == BestOf(Candidates)

\* The acting forward reaches the pass check: ball, no pressure, support.
ReachesPassCheck ==
    ctx.player.has_ball /\ ~is_under_pressure(ctx) /\ has_support(ctx)

HasEvent(r, e) == \E i \in 1..Len(r.events) : r.events[i] = e

\* C1: a forward with the ball and under pressure gets a transition to Passing
\* from try_fast, whatever the teammates' positions are.
C1_PressureFirst ==
    (Evaluated /\ ctx.player.has_ball /\ is_under_pressure(ctx))
        => (fast.is_some /\ fast.state = "Passing")

\* C1 witness: under pressure while an open, aligned teammate exists.
C1_Witness ==
    /\ JustEvaluated /\ ctx.player.has_ball /\ is_under_pressure(ctx)
    /\ Candidates # {}
    /\ fast.is_some /\ fast.state = "Passing"

\* C2: with ball, no pressure, support and a pass candidate present in the
\* snapshot, the result of try_fast carries Running and a RequestPass event of
\* the acting player.
C2_PassEmitsEvent ==
    (JustEvaluated /\ ReachesPassCheck
        /\ LET chosen == find_best_pass_option(ctx)
           IN  chosen # NoId /\ players_get(ctx, chosen))
        => (fast.is_some /\ fast.state = "Running"
            /\ HasEvent(fast, RequestPass(ctx.player.id)))

\* C3: find_best_pass_option returns the id of an open, aligned teammate whose
\* scoring chance no other open, aligned teammate exceeds, and returns none
\* exactly when no teammate is open and aligned.
C3_BestPassOption ==
    JustEvaluated =>
        LET chosen == find_best_pass_option(ctx)
            candidates == Candidates
        IN  /\ (chosen = NoId) <=> (candidates = {})
            /\ chosen # NoId => \E i \in BestOf(candidates) : TeamList[i].id = chosen

\* C3 witness: two candidates A and B, A with the strictly higher chance and
\* listed before B, A at the exact cosine 4/5 with a dot product rounded above
\* 0.8f32, and the pass check was reached and chose A.
C3_Witness ==
    /\ JustEvaluated /\ ReachesPassCheck
    /\ \E i, j \in Candidates :
          /\ i < j
          /\ HigherChance(TeamList[i], TeamList[j])
          /\ CosExact(TeamList[i])
          /\ find_best_pass_option(ctx) = TeamList[i].id
    /\ fast.is_some /\ fast.state = "Running"

\* C8: when the id chosen by find_best_pass_option is not in the player index,
\* try_fast and process_slow yield nothing and the tick commits no transition,
\* no velocity and no event.
LookupMiss ==
    /\ ReachesPassCheck
    /\ \E id \in Ids : ~players_get(ctx, id) /\ find_best_pass_option(ctx) = id

C8_LookupMissNoDecision ==
    (Evaluated /\ LookupMiss) =>
        /\ fast = None
        /\ pc # "slow" => slow = None
        /\ Committed => (applied = NoApplied /\ state = "HeadingUpPlay")

\* C8 witness: a committed tick whose chosen teammate is missing from the index.
C8_Witness == Committed /\ LookupMiss /\ tick = 1 /\ state = "HeadingUpPlay"

\* C9: with ball and no pressure, try_fast returns Dribbling exactly when no
\* teammate other than the acting player is nearer than 10.
C9_DribblingIffNoSupport ==
    (Evaluated /\ ctx.player.has_ball /\ ~is_under_pressure(ctx)) =>
        ((fast.is_some /\ fast.state = "Dribbling")
            <=> \A i \in 1..Len(TeamList) :
                    TeamList[i].id # ctx.player.id =>
                        distance_sq(ctx.player.position, TeamList[i].position) >= 100)

\* Two or more candidates share the highest scoring chance.
Tie(best) == Cardinality(best) >= 2

First(S) == CHOOSE i \in S : \A j \in S : i <= j

Last(S) == CHOOSE i \in S : \A j \in S : j <= i

\* C10 (as claimed): on a tie the first tied candidate of the list is returned.
C10_TieFirst ==
    JustEvaluated =>
        LET best == Best
        IN  Tie(best) => find_best_pass_option(ctx) = TeamList[First(best)].id

\* C10 (amended): on a tie for the highest scoring chance find_best_pass_option
\* returns the tied candidate that comes last in the teammate list.
C10_TieLast ==
    JustEvaluated =>
        LET best == Best
        IN  Tie(best) => find_best_pass_option(ctx) = TeamList[Last(best)].id

\* C10 witness: the pass check ran on a tie between two different teammates.
C10_Witness ==
    /\ JustEvaluated /\ ReachesPassCheck
    /\ LET best == Best
       IN  Tie(best) /\ TeamList[First(best)].id # TeamList[Last(best)].id
    /\ fast.is_some /\ fast.state = "Running"

\* C4: within a tick try_fast runs first and process_slow only after try_fast
\* yielded nothing; the active state changes only when the tick is committed,
\* once, from HeadingUpPlay to the one state the evaluation returned, which is
\* Running, Passing or Dribbling.
C4_OneTransitionPerTick ==
    [][/\ pc' = "slow" => (pc = "fast" /\ ~fast'.is_some)
       /\ state' # state =>
            /\ pc = "commit" /\ tick' = tick + 1
            /\ state = "HeadingUpPlay"
            /\ Pending.is_some /\ state' = Pending.state
            /\ state' \in {"Running", "Passing", "Dribbling"}
       /\ tick' = tick => state' = state]_vars

\* C4 witness: the first tick left the forward in HeadingUpPlay and the tick
\* after it moved it to Running.
C4_Witness == mode = "tick" /\ tick = 2 /\ pc = "done" /\ state = "Running"

(***************************************************************************)
(* Vocabulary of the properties of the steering model.                     *)
(***************************************************************************)
Called == mode = "steer" /\ pc # "call"

VCross(a, b) ==
    <<RSub(RMul(a[2], b[3]), RMul(a[3], b[2])),
      RSub(RMul(a[3], b[1]), RMul(a[1], b[3])),
      RSub(RMul(a[1], b[2]), RMul(a[2], b[1]))>>

\* a = -k b for some k > 0.
Antiparallel(a, b) == VCross(a, b) = ZeroV /\ RLt(VDot(a, b), R(0))

SeekOut == calc_seek([kind |-> "Seek", target |-> steer.behavior.target], steer.player).velocity

FleeOut == calc_flee([kind |-> "Flee", target |-> steer.behavior.target], steer.player).velocity

\* The output the call returned is the one named.
OutIsSeekOrFlee ==
    /\ Called /\ steer.behavior.kind \in {"Seek", "Flee"}
    /\ out.velocity = IF steer.behavior.kind = "Seek" THEN SeekOut ELSE FleeOut

\* C5 (as claimed): for every player state and target the Seek and the Flee
\* outputs are antiparallel.  Stated for targets away from the player's
\* position, where both outputs are numbers.
C5_SeekFleeAntiparallel ==
    (Called /\ steer.behavior.kind \in {"Seek", "Flee"}
        /\ steer.behavior.target # steer.player.position)
        => Antiparallel(SeekOut, FleeOut)

\* The player's velocity is c times the unit vector towards the target, with
\* -max_speed < c < 1.
VelocityAlongTarget ==
    LET u == normalize(VSub(steer.behavior.target, steer.player.position))
        c == VDot(steer.player.velocity, u)
    IN  /\ steer.behavior.target # steer.player.position
        /\ steer.player.velocity = VScale(u, c)
        /\ RLt(RSub(R(0), steer.player.max_speed), c)
        /\ RLt(c, R(1))

\* C5 (amended): the Seek and the Flee outputs for the same player and target
\* are antiparallel exactly when the target is not the player's position and
\* the player's velocity is c times the unit vector towards the target with
\* -max_speed < c < 1; for a player at rest Flee is -max_speed times Seek.
C5_AntiparallelIffAlong ==
    (Called /\ steer.behavior.kind \in {"Seek", "Flee"}) =>
        /\ out.velocity = IF steer.behavior.kind = "Seek" THEN SeekOut ELSE FleeOut
        /\ Antiparallel(SeekOut, FleeOut) <=> VelocityAlongTarget
        /\ (steer.player.velocity = ZeroV /\ steer.behavior.target # steer.player.position)
              => FleeOut = VScale(SeekOut, RSub(R(0), steer.player.max_speed))

\* C5 witness: a Flee call of a moving player whose output is antiparallel to
\* the Seek output.
C5_Witness ==
    /\ OutIsSeekOrFlee /\ steer.behavior.kind = "Flee"
    /\ steer.player.velocity # ZeroV
    /\ VelocityAlongTarget
    /\ Antiparallel(SeekOut, FleeOut)

ArriveDistance(p) == length(VSub(steer.behavior.target, p))

ArriveSpeed(p) ==
    arrive_desired_speed(ArriveDistance(p), steer.behavior.slowing_distance,
                         steer.player.max_speed)

\* C6: the desired speed of Arrive never exceeds max_speed, equals max_speed
\* at or beyond the slowing distance, and inside the slowing distance is
\* strictly smaller for a strictly smaller distance; the output of the call
\* is the velocity of that speed towards the target, less the player's own.
C6_ArriveSpeed ==
    (Called /\ steer.behavior.kind = "Arrive") =>
        LET d == ArriveDistance(steer.player.position)
            sp == ArriveSpeed(steer.player.position)
        IN  /\ RLe(sp, steer.player.max_speed)
            /\ ~RLt(d, steer.behavior.slowing_distance) => sp = steer.player.max_speed
            /\ d # R(0) => length(VAdd(out.velocity, steer.player.velocity)) = sp
            /\ \A p \in SteerPoints :
                  (RLt(ArriveDistance(p), d) /\ RLt(d, steer.behavior.slowing_distance))
                      => RLt(ArriveSpeed(p), sp)

\* C6 witness: an Arrive call at distance 4 inside slowing distance 5, with a
\* nearer point at distance 3 to compare with.
C6_Witness ==
    /\ Called /\ steer.behavior.kind = "Arrive"
    /\ ArriveDistance(steer.player.position) = R(4)
    /\ steer.behavior.slowing_distance = R(5)
    /\ \E p \in SteerPoints : ArriveDistance(p) = R(3)
    /\ length(VAdd(out.velocity, steer.player.velocity))
          = RMul(<<4, 5>>, steer.player.max_speed)

====
